---- MODULE Spec2Model ----
(***************************************************************************)
(* A model of IDE/backend/main.py: the workspace file endpoints behind the *)
(* path guard, the one-shot execution endpoints (/run, /run/python) and    *)
(* the interactive /ws/python session.                                     *)
(*                                                                         *)
(* A path is a sequence of segments read from the file-system root; a     *)
(* client path is a record [abs, segs] (a leading "/" makes it absolute).  *)
(* Text is a sequence of characters, file content a sequence of bytes.    *)
(***************************************************************************)
EXTENDS Naturals, Integers, Sequences, FiniteSets, TLC

VARIABLES
    gPath, gRes,                      \* the path guard applied to one input
    files, dirs, fReq, fResp, touched, \* the workspace file endpoints
    rReq, rPipe, rStages, rResp,       \* the one-shot request being answered
    scratch,                           \* the scratch directories that exist
    wsPc, wsExit, chan, inbox, later,  \* the /ws/python handler and its channel
    program, proc, cpc, stdinPipe, pipes, \* the session's subprocess and its pipes
    written, pumps, outFrames,         \* lines written, the pump tasks, frames sent
    wsHist                             \* what the handler has done so far

guardVars == <<gPath, gRes>>
filesVars == <<files, dirs, fReq, fResp, touched>>
runVars == <<rReq, rPipe, rStages, rResp>>
wsVars == <<wsPc, wsExit, chan, inbox, later, program, proc, cpc, stdinPipe, pipes,
            written, pumps, outFrames, wsHist>>

None == [kind |-> "none"]

(***************************************************************************)
(* Paths                                                                   *)
(***************************************************************************)
BASE_DIR == <<"srv">>
WORKSPACE_DIR == BASE_DIR \o <<"workspace">>

\* The symbolic links of the host: one inside the workspace, leading out of it.
Symlinks == (WORKSPACE_DIR \o <<"lnk">>) :> BASE_DIR

Rel(segs) == [abs |-> FALSE, segs |-> segs]
Abs(segs) == [abs |-> TRUE, segs |-> segs]

\* pathlib's "/" operator: an absolute right operand replaces the left one.
Join(base, p) == IF p.abs THEN p.segs ELSE base \o p.segs

Front(s) == SubSeq(s, 1, Len(s) - 1)

\* One step of Path.resolve(): "." is dropped, ".." pops (the root is its own
\* parent), a name is pushed and, when it names a symbolic link, followed.
ResolveStep(cur, seg) ==
    IF seg = "." THEN cur
    ELSE IF seg = ".." THEN (IF cur = <<>> THEN cur ELSE Front(cur))
    ELSE LET nxt == cur \o <<seg>>
         IN IF nxt \in DOMAIN Symlinks THEN Symlinks[nxt] ELSE nxt

RECURSIVE ResolveFrom(_, _)
ResolveFrom(cur, segs) ==
    IF segs = <<>> THEN cur
    ELSE ResolveFrom(ResolveStep(cur, Head(segs)), Tail(segs))

\* Path.resolve() of an absolute path.
Resolve(segs) == ResolveFrom(<<>>, segs)

\* Path.parents: every proper ancestor.
Parents(p) == {SubSeq(p, 1, k) : k \in 0..(Len(p) - 1)}

\* The same guard without the canonicalisation: the check is made on the
\* joined path as the client spelled it.
safe_workspace_path_unresolved(rel_path) ==
    LET target == Join(WORKSPACE_DIR, rel_path)
    IN IF WORKSPACE_DIR \notin Parents(target) /\ target # WORKSPACE_DIR
       THEN [ok |-> FALSE, status |-> 400, detail |-> "Invalid path"]
       ELSE [ok |-> TRUE, path |-> target]

safe_workspace_path(rel_path) ==
    LET target == Resolve(Join(WORKSPACE_DIR, rel_path))
    IN IF WORKSPACE_DIR \notin Parents(target) /\ target # WORKSPACE_DIR
       THEN [ok |-> FALSE, status |-> 400, detail |-> "Invalid path"]
       ELSE [ok |-> TRUE, path |-> target]

(***************************************************************************)
(* The guard on its own: every client path up to MaxSegs segments.         *)
(***************************************************************************)
MaxSegs == 3

Segments == {"a", ".", "..", "lnk", "srv", "workspace"}

SeqsUpTo(S, n) == UNION {[1..k -> S] : k \in 0..n}

GuardInputs == {[abs |-> b, segs |-> s] : b \in BOOLEAN, s \in SeqsUpTo(Segments, MaxSegs)}

InitGuardIdle == gPath = Rel(<<>>) /\ gRes = None

InitGuardInputs == gPath \in GuardInputs /\ gRes = None

\* safe_workspace_path(gPath) is called; it touches nothing but its result.
ApplyGuard ==
    /\ gRes = None
    /\ gRes' = safe_workspace_path(gPath)
    /\ UNCHANGED <<gPath, filesVars, runVars, scratch, wsVars>>

\* The next client path is supplied.
NextGuardInput ==
    /\ gRes # None
    /\ gPath' \in GuardInputs
    /\ gRes' = None
    /\ UNCHANGED <<filesVars, runVars, scratch, wsVars>>

(***************************************************************************)
(* Text and bytes                                                          *)
(***************************************************************************)
\* str.encode("utf-8") of one character: ASCII is one byte, U+00E9 two.
Utf8(c) == IF c = "E9" THEN <<"C3", "A9">> ELSE <<c>>

RECURSIVE Encode(_)
Encode(s) == IF s = <<>> THEN <<>> ELSE Utf8(Head(s)) \o Encode(Tail(s))

Ascii == {"x", "y", "CR", "LF"}

\* Whether bytes.decode("utf-8") succeeds.
RECURSIVE Decodable(_)
Decodable(b) ==
    IF b = <<>> THEN TRUE
    ELSE IF Head(b) \in Ascii THEN Decodable(Tail(b))
    ELSE IF Head(b) = "C3" /\ Len(b) >= 2 /\ b[2] = "A9" THEN Decodable(Tail(Tail(b)))
    ELSE FALSE

RECURSIVE Decode(_)
Decode(b) ==
    IF b = <<>> THEN <<>>
    ELSE IF Head(b) = "C3" THEN <<"E9">> \o Decode(Tail(Tail(b)))
    ELSE <<Head(b)>> \o Decode(Tail(b))

\* Text-mode write with newline=None on POSIX: "\n" becomes os.linesep, "\n".
RECURSIVE WriteNewlines(_)
WriteNewlines(s) ==
    IF s = <<>> THEN <<>>
    ELSE (IF Head(s) = "LF" THEN <<"LF">> ELSE <<Head(s)>>) \o WriteNewlines(Tail(s))

\* Text-mode read with newline=None: "\r\n" and "\r" are both read as "\n".
RECURSIVE ReadNewlines(_)
ReadNewlines(s) ==
    IF s = <<>> THEN <<>>
    ELSE IF Head(s) = "CR"
         THEN <<"LF">> \o ReadNewlines(IF Len(s) >= 2 /\ s[2] = "LF"
                                       THEN Tail(Tail(s)) ELSE Tail(s))
         ELSE <<Head(s)>> \o ReadNewlines(Tail(s))

\* Path.write_text(content, encoding="utf-8"): the bytes stored.
write_text(content) == Encode(WriteNewlines(content))

\* Path.read_text(encoding="utf-8") of decodable bytes.
read_text(b) == ReadNewlines(Decode(b))

(***************************************************************************)
(* The workspace file endpoints                                            *)
(***************************************************************************)
MaxUploads == 2

\* Client paths of the open/save/upload requests.
FilePaths == {Rel(<<>>), Rel(<<"a">>), Rel(<<"d", "a">>), Rel(<<"..", "x">>),
              Rel(<<"lnk", "x">>), Abs(<<"srv", "workspace", "a">>)}

\* Text contents of save requests: LF and non-ASCII, a lone CR, CRLF.
Contents == {<<"x", "LF", "E9">>, <<"x", "CR", "y">>, <<"x", "CR", "LF">>}

\* Uploaded parts: the filename as the client sent it, and the raw bytes.
UploadNames == {Rel(<<"f">>), Rel(<<"..", "f">>), Abs(<<"srv", "f">>)}
UploadData == {<<"FF">>}
UploadParts == [filename : UploadNames, data : UploadData]
UploadLists == UNION {[1..k -> UploadParts] : k \in 1..MaxUploads}

Prefixes(p) == {SubSeq(p, 1, k) : k \in 0..Len(p)}

\* Path.mkdir(parents=True, exist_ok=True) raises when the path or one of its
\* ancestors is a regular file, and otherwise leaves every ancestor a directory.
MkdirOk(fl, d) == \A q \in Prefixes(d) : q \notin DOMAIN fl
Mkdir(ds, d) == ds \cup Prefixes(d)

Http(status, detail) == [kind |-> "error", status |-> status, detail |-> detail]

InitFiles ==
    /\ files = <<>>
    /\ dirs = {<<>>, BASE_DIR, WORKSPACE_DIR}
    /\ fReq = None
    /\ fResp = None
    /\ touched = {}

\* POST /files/open
open_file(p) ==
    LET g == safe_workspace_path(p)
    IN /\ fReq' = [kind |-> "open", path |-> p]
       /\ UNCHANGED <<files, dirs>>
       /\ IF ~g.ok
          THEN fResp' = Http(g.status, g.detail) /\ touched' = {}
          ELSE IF g.path \notin DOMAIN files
          THEN fResp' = Http(404, "File not found") /\ touched' = {}
          ELSE /\ touched' = {g.path}
               /\ fResp' = IF Decodable(files[g.path])
                           THEN [kind |-> "ok", path |-> p,
                                 content |-> read_text(files[g.path])]
                           ELSE Http(500, "decode")

\* POST /files/save
save_file(p, content) ==
    LET g == safe_workspace_path(p)
    IN /\ fReq' = [kind |-> "save", path |-> p, content |-> content]
       /\ IF ~g.ok
          THEN fResp' = Http(g.status, g.detail) /\ UNCHANGED <<files, dirs>> /\ touched' = {}
          ELSE IF ~MkdirOk(files, Front(g.path))
          THEN fResp' = Http(500, "mkdir") /\ UNCHANGED <<files, dirs>> /\ touched' = {}
          ELSE /\ dirs' = Mkdir(dirs, Front(g.path))
               /\ IF g.path \in dirs'
                  THEN fResp' = Http(500, "write") /\ UNCHANGED files /\ touched' = {}
                  ELSE /\ files' = (g.path :> write_text(content)) @@ files
                       /\ touched' = {g.path}
                       /\ fResp' = [kind |-> "ok"]

\* out_path.open("wb") as the operating system resolves it: every component
\* before the last is an existing directory, and the file named is not one.
RECURSIVE WalkDirs(_, _, _)
WalkDirs(ds, cur, segs) ==
    IF cur \notin ds THEN [ok |-> FALSE]
    ELSE IF segs = <<>> THEN [ok |-> TRUE, path |-> cur]
    ELSE WalkDirs(ds, ResolveStep(cur, Head(segs)), Tail(segs))

OpenForWrite(ds, segs) ==
    IF segs = <<>> THEN [ok |-> FALSE]
    ELSE LET par == WalkDirs(ds, <<>>, Front(segs))
         IN IF ~par.ok THEN [ok |-> FALSE]
            ELSE LET t == ResolveStep(par.path, segs[Len(segs)])
                 IN IF t \in ds THEN [ok |-> FALSE] ELSE [ok |-> TRUE, path |-> t]

\* PurePath.relative_to: a comparison of the segments as spelled.
RelativeTo(segs, base) ==
    IF Len(segs) >= Len(base) /\ SubSeq(segs, 1, Len(base)) = base
    THEN [ok |-> TRUE, rel |-> SubSeq(segs, Len(base) + 1, Len(segs))]
    ELSE [ok |-> FALSE]

\* out_path = destination_dir / uf.filename
upload_target(destination_dir, filename) == Join(destination_dir, filename)

\* The loop of upload_files over the parts from the i-th on; st carries the files
\* written, the paths touched, the names stored and whether a step raised.
RECURSIVE UploadLoop(_, _, _, _, _)
UploadLoop(ds, destination_dir, parts, i, st) ==
    IF st.raised \/ i > Len(parts) THEN st
    ELSE LET out_path == upload_target(destination_dir, parts[i].filename)
             o == OpenForWrite(ds, out_path)
         IN IF ~o.ok THEN [st EXCEPT !.raised = TRUE]
            ELSE LET r == RelativeTo(out_path, WORKSPACE_DIR)
                     w == [st EXCEPT !.files = (o.path :> parts[i].data) @@ st.files,
                                     !.touched = st.touched \cup {o.path}]
                 IN IF ~r.ok THEN [w EXCEPT !.raised = TRUE]
                    ELSE UploadLoop(ds, destination_dir, parts, i + 1,
                                    [w EXCEPT !.stored = Append(w.stored, r.rel)])

\* POST /files/upload
upload_files(parts, dest) ==
    LET g == safe_workspace_path(dest)
    IN /\ fReq' = [kind |-> "upload", dest |-> dest]
       /\ IF ~g.ok
          THEN fResp' = Http(g.status, g.detail) /\ UNCHANGED <<files, dirs>> /\ touched' = {}
          ELSE IF ~MkdirOk(files, g.path)
          THEN fResp' = Http(500, "mkdir") /\ UNCHANGED <<files, dirs>> /\ touched' = {}
          ELSE LET ds == Mkdir(dirs, g.path)
                   st == UploadLoop(ds, g.path, parts, 1,
                                    [files |-> files, touched |-> {}, stored |-> <<>>,
                                     raised |-> FALSE])
               IN /\ dirs' = ds
                  /\ files' = st.files
                  /\ touched' = st.touched
                  /\ fResp' = IF st.raised THEN Http(500, "upload")
                              ELSE [kind |-> "ok", stored |-> st.stored]

OpenFile == \E p \in FilePaths : open_file(p) /\ UNCHANGED <<guardVars, runVars, scratch, wsVars>>
SaveFile == \E p \in FilePaths, c \in Contents : save_file(p, c) /\ UNCHANGED <<guardVars, runVars, scratch, wsVars>>
UploadFiles ==
    \E parts \in UploadLists, dest \in FilePaths :
        upload_files(parts, dest) /\ UNCHANGED <<guardVars, runVars, scratch, wsVars>>

(***************************************************************************)
(* One-shot execution: /run and /run/python                                *)
(***************************************************************************)
\* A language identifier is a sequence of characters.
LowerLetters == <<"a", "c", "d", "e", "h", "i", "j", "n", "o", "p", "r", "s", "t", "v", "y">>
UpperLetters == <<"A", "C", "D", "E", "H", "I", "J", "N", "O", "P", "R", "S", "T", "V", "Y">>
Whitespace == {" ", "TAB"}

ToLower(c) ==
    IF \E i \in DOMAIN UpperLetters : UpperLetters[i] = c
    THEN LowerLetters[CHOOSE i \in DOMAIN UpperLetters : UpperLetters[i] = c]
    ELSE c
ToUpper(c) ==
    IF \E i \in DOMAIN LowerLetters : LowerLetters[i] = c
    THEN UpperLetters[CHOOSE i \in DOMAIN LowerLetters : LowerLetters[i] = c]
    ELSE c

\* str.lower()
lower(s) == [i \in DOMAIN s |-> ToLower(s[i])]

\* str.strip(): leading and trailing whitespace removed.
RECURSIVE lstrip(_)
lstrip(s) == IF s # <<>> /\ Head(s) \in Whitespace THEN lstrip(Tail(s)) ELSE s
RECURSIVE rstrip(_)
rstrip(s) == IF s # <<>> /\ s[Len(s)] \in Whitespace THEN rstrip(Front(s)) ELSE s
strip(s) == rstrip(lstrip(s))

\* The identifier compared as the client spelled it, surrounding blanks removed.
normalize_language_cased(language) == strip(language)

\* language = req.language.lower().strip()
normalize_language(language) == strip(lower(language))

L_python == <<"p", "y", "t", "h", "o", "n">>
L_py == <<"p", "y">>
L_c == <<"c">>
L_cpp == <<"c", "p", "p">>
L_cxx == <<"c", "+", "+">>
L_javascript == <<"j", "a", "v", "a", "s", "c", "r", "i", "p", "t">>
L_js == <<"j", "s">>
L_node == <<"n", "o", "d", "e">>
L_java == <<"j", "a", "v", "a">>

\* The table with the python branch taken for every identifier it does not know.
Pipeline_python_default(language) ==
    IF language \in {L_c}
    THEN [supported |-> TRUE, source |-> "main.c",
          compile |-> <<"gcc", "main.c", "-O2", "-std=c11", "-o", "main">>,
          run |-> <<"main">>, retry |-> <<>>]
    ELSE [supported |-> TRUE, source |-> "main.py", compile |-> <<>>,
          run |-> <<"python", "main.py">>, retry |-> <<"python3", "main.py">>]

\* The branches of run_code as a table: the source file written, the compile
\* stage (absent for interpreted languages), the run stage, and the stage run
\* again when the first reports a missing interpreter.
Pipeline(language) ==
    IF language \in {L_python, L_py}
    THEN [supported |-> TRUE, source |-> "main.py", compile |-> <<>>,
          run |-> <<"python", "main.py">>, retry |-> <<"python3", "main.py">>]
    ELSE IF language \in {L_c}
    THEN [supported |-> TRUE, source |-> "main.c",
          compile |-> <<"gcc", "main.c", "-O2", "-std=c11", "-o", "main">>,
          run |-> <<"main">>, retry |-> <<>>]
    ELSE IF language \in {L_cpp, L_cxx}
    THEN [supported |-> TRUE, source |-> "main.cpp",
          compile |-> <<"g++", "main.cpp", "-O2", "-std=c++17", "-o", "main">>,
          run |-> <<"main">>, retry |-> <<>>]
    ELSE IF language \in {L_javascript, L_js, L_node}
    THEN [supported |-> TRUE, source |-> "main.js", compile |-> <<>>,
          run |-> <<"node", "main.js">>, retry |-> <<>>]
    ELSE IF language \in {L_java}
    THEN [supported |-> TRUE, source |-> "Main.java",
          compile |-> <<"javac", "Main.java">>,
          run |-> <<"java", "-cp", "tmp", "Main">>, retry |-> <<>>]
    ELSE [supported |-> FALSE, source |-> "", compile |-> <<>>, run |-> <<>>,
          retry |-> <<>>]

\* Output text is a sequence of words.
T_empty == <<>>
T_timed_out == <<"Execution", "timed", "out">>
T_command_not_found(cmd) == <<"Command", "not", "found", ":", cmd>>

LowerWord(w) ==
    CASE w = "Command" -> "command"
      [] w = "Not" -> "not"
      [] w = "Found" -> "found"
      [] w = "Error" -> "error"
      [] w = "Execution" -> "execution"
      [] OTHER -> w

\* "not found" in stderr.lower()
HasNotFound(text) ==
    \E i \in 1..(Len(text) - 1) :
        LowerWord(text[i]) = "not" /\ LowerWord(text[i + 1]) = "found"

DefaultTimeout == 10

\* What a spawned command does when left alone: whether the binary can be
\* started at all, how long it runs, what it writes, and whether what it writes
\* decodes in the platform encoding.
Durations == {1, 15}
StdoutTexts == {T_empty, <<"out">>}
StderrTexts == {T_empty, <<"warning">>, <<"sh", ":", "foo", ":", "not", "found">>,
                <<"Error", ":", "Not", "Found">>}
Behaviours ==
    [spawn : {"ok"}, dur : Durations, out : StdoutTexts, err : StderrTexts,
     decodable : {TRUE}]
    \cup [spawn : {"ok"}, dur : Durations, out : {<<"out">>}, err : {T_empty},
          decodable : {FALSE}]
    \cup [spawn : {"missing", "denied"}, dur : {1}, out : {T_empty}, err : {T_empty},
          decodable : {TRUE}]

Returned(out, err, killed) ==
    [raised |-> FALSE, stdout |-> out, stderr |-> err, killed |-> killed]
Raised(exc) ==
    [raised |-> TRUE, exc |-> exc, stdout |-> T_empty, stderr |-> T_empty,
     killed |-> FALSE]

\* The runner with the timeout handler returning what was collected so far.
_run_subprocess_partial(args, b, timeout_sec) ==
    IF b.spawn = "missing" THEN Returned(T_empty, T_command_not_found(args[1]), FALSE)
    ELSE IF b.spawn = "denied" THEN Raised("PermissionError")
    ELSE IF b.dur > timeout_sec THEN Returned(b.out, T_timed_out, TRUE)
    ELSE IF ~b.decodable THEN Raised("UnicodeDecodeError")
    ELSE Returned(b.out, b.err, FALSE)

\* _run_subprocess: subprocess.run kills the child and raises TimeoutExpired when
\* the timeout elapses; only TimeoutExpired and FileNotFoundError are caught.
_run_subprocess(args, b, timeout_sec) ==
    IF b.spawn = "missing" THEN Returned(T_empty, T_command_not_found(args[1]), FALSE)
    ELSE IF b.spawn = "denied" THEN Raised("PermissionError")
    ELSE IF b.dur > timeout_sec THEN Returned(T_empty, T_timed_out, TRUE)
    ELSE IF ~b.decodable THEN Raised("UnicodeDecodeError")
    ELSE Returned(b.out, b.err, FALSE)

Stage(role, args, b, timeout_sec) ==
    [role |-> role, args |-> args, beh |-> b, timeout |-> timeout_sec,
     res |-> _run_subprocess(args, b, timeout_sec)]

Result(out, err) == [kind |-> "result", stdout |-> out, stderr |-> err]
Unhandled(exc) == [kind |-> "raised", exc |-> exc]

\* The python branch: the program is run, and run again with python3 when the
\* first stage's stderr holds "not found".
python_stages(pl, b1, b2, timeout_sec) ==
    LET s1 == Stage("run", pl.run, b1, timeout_sec)
    IN IF s1.res.raised THEN <<s1>>
       ELSE IF HasNotFound(s1.res.stderr)
       THEN <<s1, Stage("retry", pl.retry, b2, timeout_sec)>>
       ELSE <<s1>>

\* The compile gate deciding on the stage having raised only.
compile_gate_lenient(compile_err) == FALSE

\* if compile_err: return {"stdout": "", "stderr": compile_err}
compile_gate(compile_err) == compile_err # T_empty

\* The c, cpp and java branches: compile, then run unless the gate closes.
compiled_stages(pl, b1, b2, timeout_sec) ==
    LET s1 == Stage("compile", pl.compile, b1, timeout_sec)
    IN IF s1.res.raised \/ compile_gate(s1.res.stderr) THEN <<s1>>
       ELSE <<s1, Stage("run", pl.run, b2, timeout_sec)>>

stages_of(pl, b1, b2, timeout_sec) ==
    IF pl.retry # <<>> THEN python_stages(pl, b1, b2, timeout_sec)
    ELSE IF pl.compile # <<>> THEN compiled_stages(pl, b1, b2, timeout_sec)
    ELSE <<Stage("run", pl.run, b1, timeout_sec)>>

\* What the handler returns after its stages: the last stage's output, with the
\* stdout of a compile stage dropped, or the exception a stage raised.
response_of(stages) ==
    LET last == stages[Len(stages)]
    IN IF last.res.raised THEN Unhandled(last.res.exc)
       ELSE IF last.role = "compile" THEN Result(T_empty, last.res.stderr)
       ELSE Result(last.res.stdout, last.res.stderr)

\* The scratch directory of `owner` leaked: the context manager's exit left out.
tmpdir_exit_leaked(dirs_, owner) == dirs_

\* with tempfile.TemporaryDirectory() as tmpdir: entry creates the directory,
\* exit removes it, however the block is left.
tmpdir_enter(dirs_, owner) == dirs_ \cup {owner}
tmpdir_exit(dirs_, owner) == dirs_ \ {owner}

InitRun ==
    /\ rReq = None
    /\ rPipe = None
    /\ rStages = <<>>
    /\ rResp = None

InitScratch == scratch = {}

\* POST /run: one call of run_code; subprocess.run blocks the handler, so the
\* request is answered in one step.
run_code(language_in, b1, b2) ==
    LET language == normalize_language(language_in)
        pl == Pipeline(language)
        inside == tmpdir_enter(scratch, "run")
    IN /\ rReq' = [kind |-> "run", language |-> language_in]
       /\ rPipe' = pl
       /\ scratch' = tmpdir_exit(inside, "run")
       /\ IF ~pl.supported
          THEN /\ rStages' = <<>>
               /\ rResp' = Http(400, "Unsupported language. Use python, c, cpp, javascript, or java")
          ELSE /\ rStages' = stages_of(pl, b1, b2, DefaultTimeout)
               /\ rResp' = response_of(rStages')

\* req.timeout or 10
timeout_or_default(t) == IF t.null \/ t.sec = 0 THEN DefaultTimeout ELSE t.sec

\* The request's timeout field: absent (null), or a number of seconds.
TimeoutInputs ==
    {[null |-> TRUE, sec |-> 0]} \cup [null : {FALSE}, sec : {0, 5, 20}]

\* POST /run/python
run_python(timeout_in, b1, b2) ==
    LET pl == Pipeline(L_python)
        inside == tmpdir_enter(scratch, "run")
    IN /\ rReq' = [kind |-> "run_python", timeout |-> timeout_in]
       /\ rPipe' = pl
       /\ scratch' = tmpdir_exit(inside, "run")
       /\ rStages' = python_stages(pl, b1, b2, timeout_or_default(timeout_in))
       /\ rResp' = response_of(rStages')

MaxUpper == 1

Aliases == {L_python, L_py, L_c, L_cpp, L_cxx, L_javascript, L_js, L_node, L_java}
Unsupported == {<<>>, <<"g", "o">>, <<"p", "y", "3">>, <<"c", " ", "+", "+">>}

\* Spellings of an identifier: up to MaxUpper letters in upper case, or all.
Cased(s) ==
    {[i \in DOMAIN s |-> IF i \in U THEN ToUpper(s[i]) ELSE s[i]] :
        U \in {V \in SUBSET DOMAIN s : Cardinality(V) <= MaxUpper \/ V = DOMAIN s}}
Padded(s) == {s, <<" ">> \o s, s \o <<"TAB", " ">>}
LanguageInputs == UNION {Padded(c) : c \in UNION {Cased(a) : a \in Aliases \cup Unsupported}}

RunCode ==
    /\ rResp = None
    /\ wsPc = "idle"
    /\ \E l \in LanguageInputs, b1 \in Behaviours, b2 \in Behaviours : run_code(l, b1, b2)
    /\ UNCHANGED <<guardVars, filesVars, wsVars>>

RunPython ==
    /\ rResp = None
    /\ wsPc = "idle"
    /\ \E t \in TimeoutInputs, b1 \in Behaviours, b2 \in Behaviours : run_python(t, b1, b2)
    /\ UNCHANGED <<guardVars, filesVars, wsVars>>

\* The response is sent; the handler's frame is gone.
Respond ==
    /\ rResp # None
    /\ rReq' = None /\ rPipe' = None /\ rStages' = <<>> /\ rResp' = None
    /\ UNCHANGED <<guardVars, filesVars, scratch, wsVars>>

(***************************************************************************)
(* The interactive session: /ws/python                                     *)
(***************************************************************************)
MaxFrames == 2

Tags == {"stdout", "stderr"}

\* A frame's text is a sequence of tokens: "NL" is a line break, "BIG" a run of
\* characters longer than the stream reader's line limit, anything else a word.
Msgs == {<<"hello">>, <<"a", "NL", "b">>, <<"BIG">>}

Text(form, code, v) == [t |-> "text", form |-> form, code |-> code, v |-> v]
Bytes == [t |-> "bytes", form |-> "", code |-> "", v |-> <<>>]
Disconnect == [t |-> "disconnect", form |-> "", code |-> "", v |-> <<>>]

\* First frames: {"code": <program>}, the program as raw text, a JSON scalar, a
\* JSON object without "code", {"code": null}, {"code": 5}. The programs are
\* "echo", "once" and "noop" (see ChildStep).
FirstFrames ==
    {Text("json_code", c, <<>>) : c \in {"echo", "once"}}
    \cup {Text("raw", "echo", <<>>), Text("json_scalar", "", <<>>),
          Text("json_no_code", "", <<>>), Text("json_code_null", "", <<>>),
          Text("json_code_int", "", <<>>)}

\* The code taken from the first frame: the text it is ("field": the value of
\* "code"; "raw": the frame as sent, when json.loads or payload.get raises;
\* "empty": the default of payload.get, or `code or ""` for null), what that
\* program does, and whether code_path.write_text accepts it (it raises
\* TypeError for a value that is not text).
parse_first(first) ==
    CASE first.form = "json_code" ->
            [writable |-> TRUE, program |-> first.code, text |-> "field"]
      [] first.form = "raw" ->
            [writable |-> TRUE, program |-> first.code, text |-> "raw"]
      [] first.form = "json_scalar" ->
            [writable |-> TRUE, program |-> "noop", text |-> "raw"]
      [] first.form = "json_no_code" ->
            [writable |-> TRUE, program |-> "noop", text |-> "empty"]
      [] first.form = "json_code_null" ->
            [writable |-> TRUE, program |-> "noop", text |-> "empty"]
      [] OTHER -> [writable |-> FALSE, program |-> "noop", text |-> "field"]

HasLine(p) == \E i \in DOMAIN p : p[i] = "NL"
LineEnd(p) == CHOOSE i \in DOMAIN p : p[i] = "NL" /\ \A j \in 1..(i - 1) : p[j] # "NL"
FirstLine(p) == SubSeq(p, 1, LineEnd(p))
AfterFirstLine(p) == SubSeq(p, LineEnd(p) + 1, Len(p))
OverLimit(line) == \E i \in DOMAIN line : line[i] = "BIG"

Alive == proc = "running"

\* proc.returncode is None until the event loop has seen the exit.
ReturncodeIsNone(p) == p \in {"running", "exited"}

InitWs ==
    /\ wsPc = "idle"
    /\ wsExit = "none"
    /\ chan = "none"
    /\ inbox = <<>>
    /\ later = <<>>
    /\ program = "none"
    /\ proc = "none"
    /\ cpc = "start"
    /\ stdinPipe = <<>>
    /\ pipes = [tag \in Tags |-> <<>>]
    /\ written = [tag \in Tags |-> <<>>]
    /\ wsHist = [sent |-> 0, first |-> "none", code |-> "none", stdin |-> <<>>,
                 spawns |-> 0, tmpdirs |-> 0]
    /\ pumps = [tag \in Tags |-> [pc |-> "none", line |-> <<>>]]
    /\ outFrames = <<>>

\* A client connects and the handler accepts: await websocket.accept().
Connect ==
    /\ wsPc = "idle"
    /\ rResp = None
    /\ wsPc' = "first"
    /\ chan' = "open"
    /\ UNCHANGED <<wsHist, written, cpc, wsExit, inbox, later, program, proc, stdinPipe, pipes, pumps,
                   outFrames, scratch, guardVars, filesVars, runVars>>

ClientOpen ==
    chan = "open" /\ (IF inbox = <<>> THEN TRUE ELSE inbox[Len(inbox)].t # "disconnect")

\* The client sends its first frame, or a later one.
ClientSend ==
    /\ ClientOpen
    /\ Len(later) < MaxFrames
    /\ \/ /\ wsPc = "first" /\ inbox = <<>>
          /\ \E f \in FirstFrames \cup {Bytes} : inbox' = Append(inbox, f)
          /\ UNCHANGED later
       \/ /\ wsPc # "first"
          /\ \E m \in Msgs :
                /\ inbox' = Append(inbox, Text("raw", "", m))
                /\ later' = Append(later, m)
       \/ /\ wsPc # "first"
          /\ inbox' = Append(inbox, Bytes)
          /\ later' = Append(later, <<"BYTES">>)
    /\ wsHist' = [wsHist EXCEPT !.sent = @ + 1]
    /\ UNCHANGED <<written, cpc, wsPc, wsExit, chan, program, proc, stdinPipe, pipes, pumps,
                   outFrames, scratch, guardVars, filesVars, runVars>>

\* The client closes the connection.
ClientDisconnect ==
    /\ ClientOpen
    /\ inbox' = Append(inbox, Disconnect)
    /\ chan' = "client_closed"
    /\ UNCHANGED <<wsHist, written, cpc, wsPc, wsExit, later, program, proc, stdinPipe, pipes, pumps,
                   outFrames, scratch, guardVars, filesVars, runVars>>

\* Leaving the handler's try block: through the with block when one is open.
Unwind(exit) ==
    /\ wsExit' = exit
    /\ wsPc' = IF "ws" \in scratch THEN "cleanup" ELSE "finally"

\* The handler preparing the session without waiting for the client: a
\* disconnect before the first frame is taken as an empty program.
WsRecvFirst_eager ==
    /\ wsPc = "first"
    /\ inbox # <<>>
    /\ inbox' = Tail(inbox)
    /\ scratch' = tmpdir_enter(scratch, "ws")
    /\ wsHist' = [wsHist EXCEPT !.tmpdirs = @ + 1]
    /\ program' = IF Head(inbox).t = "text" THEN parse_first(Head(inbox)).program ELSE "noop"
    /\ wsPc' = "spawn"
    /\ UNCHANGED <<wsExit, written, cpc, chan, later, proc, stdinPipe, pipes, pumps, outFrames,
                   guardVars, filesVars, runVars>>

\* first = await websocket.receive_text(), the code taken from it, the scratch
\* directory made and the code written.
WsRecvFirst ==
    /\ wsPc = "first"
    /\ inbox # <<>>
    /\ inbox' = Tail(inbox)
    /\ LET f == Head(inbox)
       IN IF f.t = "disconnect"
          THEN Unwind("WebSocketDisconnect") /\ UNCHANGED <<program, scratch, wsHist>>
          ELSE IF f.t = "bytes"
          THEN Unwind("KeyError") /\ UNCHANGED <<program, scratch, wsHist>>
          ELSE LET c == parse_first(f)
               IN /\ scratch' = tmpdir_enter(scratch, "ws")
                  /\ wsHist' = [wsHist EXCEPT !.tmpdirs = @ + 1, !.first = f.form,
                                                !.code = c.text]
                  /\ program' = c.program
                  /\ IF c.writable
                     THEN wsPc' = "spawn" /\ UNCHANGED wsExit
                     ELSE wsPc' = "cleanup" /\ wsExit' = "TypeError"
    /\ UNCHANGED <<written, cpc, chan, later, proc, stdinPipe, pipes, pumps, outFrames,
                   guardVars, filesVars, runVars>>

\* proc = await asyncio.create_subprocess_exec("python", ...), then the two
\* pump tasks are created; a missing interpreter raises FileNotFoundError.
WsSpawn ==
    /\ wsPc = "spawn"
    /\ \/ /\ proc' = "running"
          /\ pumps' = [tag \in Tags |-> [pc |-> "readline", line |-> <<>>]]
          /\ wsHist' = [wsHist EXCEPT !.spawns = @ + 1]
          /\ wsPc' = "loop"
          /\ UNCHANGED wsExit
       \/ /\ wsPc' = "cleanup"
          /\ wsExit' = "FileNotFoundError"
          /\ UNCHANGED <<proc, pumps, wsHist>>
    /\ UNCHANGED <<written, cpc, chan, inbox, later, program, stdinPipe, pipes, outFrames,
                   scratch, guardVars, filesVars, runVars>>

\* The frame written without the line break added.
stdin_data_raw(msg) == msg

\* (msg + "\n").encode()
stdin_data(msg) == msg \o <<"NL">>

\* msg = await websocket.receive_text(); proc.stdin.write((msg + "\n").encode());
\* await proc.stdin.drain(). Once the loop has seen the subprocess exit, the
\* stdin transport is closed and drain raises ConnectionResetError; between the
\* exit and that, the bytes written are lost.
WsRecv ==
    /\ wsPc = "loop"
    /\ inbox # <<>>
    /\ inbox' = Tail(inbox)
    /\ LET f == Head(inbox)
       IN IF f.t = "disconnect"
          THEN Unwind("WebSocketDisconnect") /\ UNCHANGED <<stdinPipe, wsHist>>
          ELSE IF f.t = "bytes"
          THEN Unwind("KeyError") /\ UNCHANGED <<stdinPipe, wsHist>>
          ELSE IF proc = "reaped"
          THEN Unwind("ConnectionResetError") /\ UNCHANGED <<stdinPipe, wsHist>>
          ELSE /\ stdinPipe' = IF Alive THEN stdinPipe \o stdin_data(f.v) ELSE stdinPipe
               /\ wsHist' = IF Alive THEN [wsHist EXCEPT !.stdin = @ \o stdin_data(f.v)]
                             ELSE wsHist
               /\ UNCHANGED <<wsPc, wsExit>>
    /\ UNCHANGED <<written, cpc, chan, later, program, proc, pipes, pumps, outFrames, scratch,
                   guardVars, filesVars, runVars>>

\* The with block is left: the scratch directory is removed.
WsCleanup ==
    /\ wsPc = "cleanup"
    /\ scratch' = tmpdir_exit(scratch, "ws")
    /\ wsPc' = "finally"
    /\ UNCHANGED <<wsHist, written, cpc, wsExit, chan, inbox, later, program, proc, stdinPipe, pipes,
                   pumps, outFrames, guardVars, filesVars, runVars>>

\* The teardown without the kill.
teardown_proc_nokill(p) == p

\* finally: if proc and proc.returncode is None: proc.kill()
teardown_proc(p) == IF p # "none" /\ ReturncodeIsNone(p) THEN "killed" ELSE p

\* The finally block; the handler returns or re-raises and the server closes
\* the connection.
WsFinally ==
    /\ wsPc = "finally"
    /\ proc' = teardown_proc(proc)
    /\ wsPc' = "done"
    /\ chan' = IF chan = "open" THEN "server_closed" ELSE chan
    /\ UNCHANGED <<wsHist, written, cpc, wsExit, inbox, later, program, stdinPipe, pipes, pumps,
                   outFrames, scratch, guardVars, filesVars, runVars>>

\* line = await reader.readline(): a line within the limit is taken, a longer
\* one raises ValueError in the task, end-of-data ends the loop.
PumpRead(tag) ==
    /\ pumps[tag].pc = "readline"
    /\ IF HasLine(pipes[tag])
       THEN LET line == FirstLine(pipes[tag])
            IN /\ pipes' = [pipes EXCEPT ![tag] = AfterFirstLine(pipes[tag])]
               /\ pumps' = [pumps EXCEPT ![tag] =
                              IF OverLimit(line) THEN [pc |-> "failed", line |-> <<>>]
                              ELSE [pc |-> "send", line |-> line]]
       ELSE /\ ~Alive
            /\ pumps' = [pumps EXCEPT ![tag] = [pc |-> "finished", line |-> <<>>]]
            /\ UNCHANGED pipes
    /\ UNCHANGED <<wsHist, written, cpc, wsPc, wsExit, chan, inbox, later, program, proc, stdinPipe,
                   outFrames, scratch, guardVars, filesVars, runVars>>

\* line.decode(errors='ignore'): bytes that are not valid UTF-8 ("XFF") are
\* dropped, the rest of the line is kept.
decode_ignore(line) == SelectSeq(line, LAMBDA t : t # "XFF")

\* await websocket.send_text(json.dumps({tag: line.decode(errors='ignore')}))
PumpSend(tag) ==
    /\ pumps[tag].pc = "send"
    /\ IF chan = "open"
       THEN /\ outFrames' = Append(outFrames, [tag |-> tag, line |-> decode_ignore(pumps[tag].line)])
            /\ pumps' = [pumps EXCEPT ![tag] = [pc |-> "readline", line |-> <<>>]]
       ELSE /\ pumps' = [pumps EXCEPT ![tag] = [pc |-> "failed", line |-> <<>>]]
            /\ UNCHANGED outFrames
    /\ UNCHANGED <<wsHist, written, cpc, wsPc, wsExit, chan, inbox, later, program, proc, stdinPipe,
                   pipes, scratch, guardVars, filesVars, runVars>>

\* The subprocess. "echo" is while True: print(input()): input() flushes stdout
\* and reads one line, print writes it back. "once" writes a line holding a
\* byte that is not valid UTF-8 to stderr, a line to stdout and exits. "noop" exits at once.
ChildStep ==
    /\ Alive
    /\ \/ /\ program = "echo"
          /\ HasLine(stdinPipe)
          /\ stdinPipe' = AfterFirstLine(stdinPipe)
          /\ pipes' = [pipes EXCEPT !["stdout"] = @ \o FirstLine(stdinPipe)]
          /\ written' = [written EXCEPT !["stdout"] = Append(@, FirstLine(stdinPipe))]
          /\ UNCHANGED proc
          /\ UNCHANGED cpc
       \/ /\ program = "once" /\ cpc = "start"
          /\ pipes' = [pipes EXCEPT !["stderr"] = @ \o <<"oops", "XFF", "NL">>]
          /\ written' = [written EXCEPT !["stderr"] = Append(@, <<"oops", "XFF", "NL">>)]
          /\ cpc' = "warned"
          /\ UNCHANGED <<proc, stdinPipe>>
       \/ /\ program = "once" /\ cpc = "warned"
          /\ pipes' = [pipes EXCEPT !["stdout"] = @ \o <<"bye", "NL">>]
          /\ written' = [written EXCEPT !["stdout"] = Append(@, <<"bye", "NL">>)]
          /\ proc' = "exited"
          /\ UNCHANGED <<stdinPipe, cpc>>
       \/ /\ program = "noop"
          /\ proc' = "exited"
          /\ UNCHANGED <<pipes, written, stdinPipe, cpc>>
    /\ UNCHANGED <<wsHist, wsPc, wsExit, chan, inbox, later, program, pumps, outFrames,
                   scratch, guardVars, filesVars, runVars>>

\* The event loop learns that the subprocess has exited: returncode is set and
\* the stdin transport is closed.
Reap ==
    /\ proc = "exited"
    /\ proc' = "reaped"
    /\ UNCHANGED <<wsHist, written, cpc, wsPc, wsExit, chan, inbox, later, program, stdinPipe, pipes,
                   pumps, outFrames, scratch, guardVars, filesVars, runVars>>

vars == <<guardVars, filesVars, runVars, scratch, wsVars>>



NextGuard == ApplyGuard \/ NextGuardInput
NextFiles == OpenFile \/ SaveFile \/ UploadFiles
NextRun == RunCode \/ RunPython \/ Respond
NextClient == Connect \/ ClientSend \/ ClientDisconnect
NextHandler == WsRecvFirst \/ WsSpawn \/ WsRecv \/ WsCleanup \/ WsFinally
NextPumps == \E tag \in Tags : PumpRead(tag) \/ PumpSend(tag)
NextChild == ChildStep \/ Reap
Next == NextRun \/ NextClient \/ NextHandler \/ NextPumps \/ NextChild

InitGuardOnly == InitGuardInputs /\ InitFiles /\ InitRun /\ InitScratch /\ InitWs
Init == InitGuardIdle /\ InitFiles /\ InitRun /\ InitScratch /\ InitWs

\* The handler, the pump tasks and the subprocess are scheduled whenever they
\* can run; the client is under no obligation to send or to disconnect.
Fairness ==
    /\ WF_vars(NextHandler)
    /\ WF_vars(PumpRead("stdout")) /\ WF_vars(PumpSend("stdout"))
    /\ WF_vars(PumpRead("stderr")) /\ WF_vars(PumpSend("stderr"))
    /\ WF_vars(NextChild)
    /\ WF_vars(Respond)

SpecGuard == InitGuardOnly /\ [][NextGuard]_vars
SpecFiles == Init /\ [][NextFiles]_vars
Spec == Init /\ [][Next]_vars
FairSpec == Spec /\ Fairness

(***************************************************************************)
(* Properties                                                              *)
(***************************************************************************)
InsideWorkspace(t) ==
    Len(t) > Len(WORKSPACE_DIR) /\ SubSeq(t, 1, Len(WORKSPACE_DIR)) = WORKSPACE_DIR

AtOrInsideWorkspace(t) ==
    Len(t) >= Len(WORKSPACE_DIR) /\ SubSeq(t, 1, Len(WORKSPACE_DIR)) = WORKSPACE_DIR

\* C1: no open, save or upload request reads or writes a file outside the
\* workspace root: every file a request touches, the files stored by upload
\* included, is a descendant of the root.
C1_AccessStaysInWorkspace == \A t \in touched : InsideWorkspace(t)

\* C2: the guard answers 400 exactly when the canonical resolution of the path
\* against the workspace root is neither the root nor a descendant of it, and
\* otherwise returns that canonical path; the empty path gives the root; the
\* file system is left as it was.
C2_GuardContract ==
    gRes # None =>
        LET canonical == Resolve(Join(WORKSPACE_DIR, gPath))
        IN /\ IF AtOrInsideWorkspace(canonical)
              THEN gRes.ok /\ gRes.path = canonical
              ELSE ~gRes.ok /\ gRes.status = 400
           /\ (gPath = Rel(<<>>) => gRes.ok /\ gRes.path = WORKSPACE_DIR)
           /\ files = <<>> /\ dirs = {<<>>, BASE_DIR, WORKSPACE_DIR}

\* A relative path with a traversal segment that leaves the root was refused.
C2_TraversalRefused ==
    /\ gRes # None /\ ~gRes.ok
    /\ ~gPath.abs
    /\ \E i \in DOMAIN gPath.segs : gPath.segs[i] = ".."

CompiledRequest == rResp # None /\ rReq.kind = "run" /\ rPipe.compile # <<>>

\* C3: in a compile-then-run request, a compiler that wrote to stderr means the
\* run stage is not invoked and the response is {"", the compiler's stderr};
\* a run stage is invoked only after a compile stage that returned empty
\* stderr, and then its stdout and stderr are the response.
C3_CompileGate ==
    CompiledRequest =>
        LET c == rStages[1]
        IN /\ c.role = "compile"
           /\ (c.beh.spawn = "ok" /\ c.beh.dur <= c.timeout /\ c.beh.decodable
                   /\ c.beh.err # T_empty)
                => Len(rStages) = 1 /\ rResp = Result(T_empty, c.beh.err)
           /\ (~c.res.raised /\ c.res.stderr # T_empty)
                => Len(rStages) = 1 /\ rResp = Result(T_empty, c.res.stderr)
           /\ \A i \in DOMAIN rStages :
                rStages[i].role = "run" =>
                    /\ ~c.res.raised /\ c.res.stderr = T_empty
                    /\ ~rStages[i].res.raised =>
                         rResp = Result(rStages[i].res.stdout, rStages[i].res.stderr)

\* A compiler wrote diagnostics and the request ended after the compile stage.
C3_CompileFailed ==
    /\ CompiledRequest
    /\ Len(rStages) = 1
    /\ rStages[1].beh.spawn = "ok" /\ rStages[1].beh.err # T_empty
    /\ rResp = Result(T_empty, rStages[1].beh.err)

TimedOut(s) == s.beh.spawn = "ok" /\ s.beh.dur > s.timeout

\* C4: a stage whose subprocess is still running when the timeout elapses is
\* killed, what it had written is dropped, and the response is exactly
\* {stdout: "", stderr: "Execution timed out"}.
C4_TimeoutResult ==
    rResp # None =>
        \A i \in DOMAIN rStages :
            TimedOut(rStages[i]) =>
                /\ rStages[i].res.killed
                /\ ~rStages[i].res.raised
                /\ rResp = Result(T_empty, T_timed_out)

\* A run stage that had already written output ran into the timeout.
C4_RunTimedOut ==
    /\ rResp # None
    /\ \E i \in DOMAIN rStages :
          /\ TimedOut(rStages[i])
          /\ rStages[i].role = "run"
          /\ rStages[i].beh.out # T_empty

\* C5: a one-shot request with a supported language is always answered with a
\* {stdout, stderr} result, whatever its stages do.
C5_AlwaysEnvelope == (rResp # None /\ rPipe.supported) => rResp.kind = "result"

\* C6: once the connection handler has finished, on whatever exit path, the
\* session's subprocess is not alive.
C6_NoProcessAfterHandler == wsPc = "done" => ~Alive

\* The client disconnected while the subprocess was running, and it was killed.
C6_KilledOnDisconnect ==
    wsPc = "done" /\ wsExit = "WebSocketDisconnect" /\ proc = "killed"

StdoutFrame(line) == [tag |-> "stdout", line |-> line]
Frames(tag) == SelectSeq(outFrames, LAMBDA f : f.tag = tag)

\* The k-th later frame has been answered by the stdout frame of its text.
Echoed(k) ==
    /\ Len(later) >= k
    /\ \E i \in DOMAIN outFrames : outFrames[i] = StdoutFrame(later[k] \o <<"NL">>)

\* The k-th line written to stdout has been sent as the k-th stdout frame.
Delivered(k) ==
    /\ Len(written["stdout"]) >= k
    /\ Len(Frames("stdout")) >= k
    /\ Frames("stdout")[k] = StdoutFrame(written["stdout"][k])

TextFrameSent(k) ==
    program = "echo" /\ Len(later) >= k /\ later[k] # <<"BYTES">>

\* C7: in the echo session every later inbound frame m is eventually followed by
\* the outbound frame {"stdout": m + "\n"} while the channel stays connected,
\* and every line the subprocess writes to stdout is eventually sent as one
\* stdout frame while the channel stays connected.
C7_EchoAndLinesDelivered ==
    /\ \A k \in 1..MaxFrames : TextFrameSent(k) ~> (chan # "open" \/ Echoed(k))
    /\ \A k \in 1..(2 * MaxFrames) :
          (Len(written["stdout"]) >= k) ~> (chan # "open" \/ Delivered(k))

\* C8: the scratch directory of an execution is gone once the execution has
\* ended: after a one-shot request is answered, after the session's handler has
\* finished.
C8_ScratchRemoved ==
    /\ rResp # None => "run" \notin scratch
    /\ wsPc = "done" => "ws" \notin scratch

\* A session whose scratch directory was made ended on a disconnect.
C8_SessionEnded ==
    wsPc = "done" /\ program # "none" /\ wsExit = "WebSocketDisconnect"

\* C9: save(path, content) followed at once by open(path) returns content.
C9_SaveOpenRoundTrip ==
    [][(/\ fReq.kind = "save" /\ fResp.kind = "ok"
        /\ fReq'.kind = "open" /\ fReq'.path = fReq.path)
       => (fResp'.kind = "ok" /\ fResp'.content = fReq.content)]_vars

AliasGroups ==
    {{L_python, L_py}, {L_c}, {L_cpp, L_cxx}, {L_javascript, L_js, L_node}, {L_java}}

\* s spells a, letter case aside.
Spells(s, a) ==
    Len(s) = Len(a) /\ \A i \in DOMAIN a : s[i] = a[i] \/ s[i] = ToUpper(a[i])

\* C10: a /run request whose language spells a supported name or alias in any
\* letter case is not refused as unsupported, the pipeline selected has a run
\* stage, and it is the pipeline of every alias of that language.
C10_LookupSucceeds ==
    (rResp # None /\ rReq.kind = "run") =>
        \A g \in AliasGroups : \A a \in g :
            Spells(rReq.language, a) =>
                /\ rPipe.supported
                /\ rPipe.run # <<>>
                /\ ~(rResp.kind = "error" /\ rResp.status = 400)
                /\ \A b \in g : Pipeline(b) = rPipe

\* "NODE" selected the pipeline that runs node.
C10_UpperCaseAlias ==
    /\ rResp # None /\ rReq.kind = "run"
    /\ rReq.language = <<"N", "O", "D", "E">>
    /\ rPipe.supported /\ rPipe.run[1] = "node"

\* s, surrounding blanks and letter case aside, spells one of the aliases.
NamesAlias(s) == \E a \in Aliases : Spells(strip(s), a)

UnsupportedDetail == "Unsupported language. Use python, c, cpp, javascript, or java"

\* C11: a /run request whose language spells no supported name or alias is
\* answered with HTTP 400 whose detail names the supported languages, and no
\* stage is spawned for it.
C11_UnsupportedRefused ==
    (rResp # None /\ rReq.kind = "run" /\ ~NamesAlias(rReq.language)) =>
        /\ rResp = Http(400, UnsupportedDetail)
        /\ rStages = <<>>

\* "go" was refused.
C11_GoRefused ==
    /\ rResp # None /\ rReq.kind = "run"
    /\ rReq.language = <<"g", "o">>
    /\ rResp.kind = "error" /\ rResp.status = 400

\* The subprocess has exited by itself (it was not killed by the teardown).
ExitedByItself == proc \in {"exited", "reaped"}

\* C12: a session whose subprocess has exited stays in its receive loop while
\* the channel is connected: the pumps reaching end-of-data do not end it, and
\* no text frame received after the exit makes the handler leave the loop.
C12_PersistsAfterExit ==
    [][(wsPc = "loop" /\ ExitedByItself /\ wsPc' # "loop")
         => (inbox # <<>> /\ Head(inbox).t # "text")]_vars

\* The pump task of `tag` is not running: it was never created, or it has ended.
PumpEnded(tag) == pumps[tag].pc \in {"none", "finished", "failed"}

\* C13: once the connection handler has finished, neither pump task is still
\* running: none waits in readline or is about to send a frame.
C13_PumpsEndedWithHandler == wsPc = "done" => \A tag \in Tags : PumpEnded(tag)

\* The session ended because the subprocess could not be spawned.
SpawnFailed == wsExit = "FileNotFoundError"

\* C14: a session whose spawn failed has sent exactly one message on the
\* channel by the time its handler has finished, and the failure did not leave
\* the handler as an exception.
C14_SpawnFailureReported ==
    (wsPc = "done" /\ SpawnFailed) => Len(outFrames) = 1

\* The text of the frames sent so far for one stream, in order.
FrameLines(tag) == [i \in 1..Len(Frames(tag)) |-> Frames(tag)[i].line]

\* The frames of `tag` are the first lines written to that stream, one frame
\* per line, unaltered and in order.
InOrder(tag) ==
    /\ Len(FrameLines(tag)) <= Len(written[tag])
    /\ FrameLines(tag) = SubSeq(written[tag], 1, Len(FrameLines(tag)))

\* C15: for each of stdout and stderr the frames tagged with the stream are, in
\* order, the lines the subprocess wrote to it, newline included, and every
\* line written is sent while the channel stays connected; nothing is required
\* of the order between the two streams.
C15_PerStreamOrder ==
    /\ [](\A tag \in Tags : InOrder(tag))
    /\ \A tag \in Tags : \A k \in 1..(2 * MaxFrames) :
          (Len(written[tag]) >= k) ~> (chan # "open" \/ Len(Frames(tag)) >= k)

\* The frames after the first that the handler has received so far: those the
\* client sent, less the ones still waiting in the channel.
Pending == Len(SelectSeq(inbox, LAMBDA f : f.t # "disconnect"))
Received == SubSeq(later, 1, Len(later) - Pending)

RECURSIVE LinesOf(_)
LinesOf(frames) ==
    IF frames = <<>> THEN <<>> ELSE Head(frames) \o <<"NL">> \o LinesOf(Tail(frames))

\* C16: while the session is in its receive loop and the subprocess runs, what
\* has been written to its stdin is the frames received after the first, in
\* arrival order, each followed by one newline: the first frame is not part of
\* it, and no frame is missing or repeated.
C16_StdinIsFramesInOrder ==
    (wsPc = "loop" /\ Alive) => wsHist.stdin = LinesOf(Received)

\* Two frames, one of them holding a line break, were received and written.
C16_TwoFramesWritten ==
    /\ wsPc = "loop" /\ Alive
    /\ Len(Received) = 2 /\ Received[1] # Received[2]
    /\ \E i \in DOMAIN Received : Received[i] = <<"a", "NL", "b">>
    /\ wsHist.stdin = LinesOf(Received)

\* The handler has received the client's first frame.
FirstReceived == wsHist.sent >= 1 /\ wsPc \notin {"idle", "first"}

\* C17: a connection spawns at most one subprocess and makes at most one
\* scratch directory, both only after the first frame the client sent has been
\* received; a connection on which the client has sent nothing has neither.
C17_OneSessionPerConnection ==
    /\ wsHist.spawns <= 1 /\ wsHist.tmpdirs <= 1
    /\ (wsHist.spawns = 1 \/ wsHist.tmpdirs = 1 \/ proc # "none") => FirstReceived
    /\ wsHist.sent = 0 =>
          wsHist.spawns = 0 /\ wsHist.tmpdirs = 0 /\ proc = "none" /\ "ws" \notin scratch

\* The client disconnected without sending a frame and the handler has ended.
C17_DisconnectedSilently ==
    /\ wsPc = "done" /\ wsExit = "WebSocketDisconnect"
    /\ wsHist.sent = 0 /\ wsHist.spawns = 0 /\ wsHist.tmpdirs = 0

\* C18: the program written for the session is the value of "code" when the
\* first frame is a JSON object with a "code" field, and the frame's raw text
\* when it is anything else; whatever the first frame is, the handler reaches
\* the spawn.
C18_CodeFromFirstFrame ==
    wsHist.first # "none" =>
        /\ wsHist.first = "json_code" => wsHist.code = "field"
        /\ wsHist.first \in {"raw", "json_scalar", "json_no_code"} => wsHist.code = "raw"
        /\ wsExit # "TypeError"

\* The stages of the request in which the submitted program actually ran.
Executions == {i \in DOMAIN rStages : rStages[i].role \in {"run", "retry"}
                                        /\ rStages[i].beh.spawn = "ok"}

\* C19: a one-shot Python request runs the submitted program at most once: the
\* python3 stage follows only a first stage whose python binary was missing.
C19_FallbackOnlyWhenMissing ==
    (rResp # None /\ rPipe.retry # <<>>) =>
        /\ Cardinality(Executions) <= 1
        /\ \A i \in DOMAIN rStages :
              rStages[i].role = "retry" => rStages[1].beh.spawn = "missing"

\* The session's scratch directory was made and has been removed.
ScratchDeleted == wsHist.tmpdirs = 1 /\ "ws" \notin scratch

\* C20: the scratch directory of a session is never removed while the
\* session's subprocess is still alive.
C20_KillBeforeDelete == ScratchDeleted => ~Alive

====
